---- MODULE Spec2Model ----
(***************************************************************************)
(* The gamification engine of progress_api: XP ledger and cached total,    *)
(* levels, streaks, achievements and missions, as implemented in           *)
(* src/progress/gamification.py and src/progress/models.py.                *)
(*                                                                         *)
(* One user is modelled (no operation reads another user's rows).  The     *)
(* database tables are the variables; an in-memory model instance (a       *)
(* ProgressProfile held by a GamificationEngine, a Task held by a view) is *)
(* a record copied from its row, and Model.save() writes the whole record  *)
(* back, as Django does.                                                   *)
(***************************************************************************)
EXTENDS Integers, Sequences, FiniteSets, TLC

VARIABLES
    now,                \* timezone.now(), in quarter-hours since the epoch of the run
    tasks,              \* Task table: TaskIds -> row
    profile,            \* the user's ProgressProfile row
    xplog,              \* XPLog table, in creation order (append-only)
    user_achievements,  \* UserAchievement table, in creation order
    missions,           \* UserMission table: MissionIds -> row
    saves,              \* total_xp stored by each ProgressProfile.save() of the last
                        \* operation, in order, preceded by the value stored before it
    requests,           \* in-flight PATCH /tasks/<id>/complete/ requests
    result,             \* what the last operation returned
    users,              \* User table with what the batch services read of each
                        \* user: UserIds -> row
    leaderboard,        \* LeaderboardEntry table, in the order the rows
                        \* were created
    notifications,      \* Notification table: the created_at of each row
    settings,           \* SystemSetting: the value of last_maintenance_run
    maintenance,        \* what the last run_daily_maintenance returned
    weekly_reviews,     \* WeeklyReview table of the user
    achievements        \* Achievement table, in the order of the rows' ids

\* the tables of the services around the engine (leaderboards, daily
\* maintenance, weekly reviews) and the achievement definitions, which no
\* operation of the engine writes
batch == <<users, leaderboard, notifications, settings, maintenance, weekly_reviews,
           achievements>>

vars == <<now, tasks, profile, xplog, user_achievements, missions, saves, requests, result,
          batch>>

----------------------------------------------------------------------------
(* Bounds of the model *)

\* days the clock of Spec can reach: 0..MaxDay
MaxDay == 2
\* days the clock of SpecStreak can reach: 0..MaxStreakDay
MaxStreakDay == 7
\* tasks of the user in Spec and SpecConcurrent, and in SpecStreak
NumTasks == 2
NumStreakTasks == 1
\* largest level whose XP requirement SpecXp asks for
MaxLevel == 4
\* tasks of the user in SpecHistory, and the days its clock can reach
NumHistoryTasks == 4
MaxHistoryDay == 5
\* missions of the user in Spec, and in SpecMission
NumMissions == 1
NumMissionsOfMission == 2
\* tasks, days and ledger entries of SpecTiming
NumTimingTasks == 2
MaxTimingDay == 1
MaxLedger == 3
\* users of the leaderboard runs, users and notifications of the maintenance runs
NumUsers == 3
NumMaintenanceUsers == 2
NumNotifications == 2
\* concurrent completion requests in SpecConcurrent
NumRequests == 2
\* largest progress_value passed to a mission progress update
MaxIncrement == 2

----------------------------------------------------------------------------
(* Time *)

QuartersPerDay == 4 * 24
NoDate == 0 - 1                       \* None in a DateField / DateTimeField
Date(t) == t \div QuartersPerDay      \* datetime.date()
Today == Date(now)

Max(a, b) == IF a >= b THEN a ELSE b
Min(a, b) == IF a <= b THEN a ELSE b

----------------------------------------------------------------------------
(* XP calculator: GamificationEngine.calculate_task_xp and helpers *)

Difficulties == {"easy", "medium", "hard", "expert"}
Priorities == {"low", "medium", "high", "urgent"}

\* a table that gives every difficulty the default
BaseXpDefaultOnly(difficulty) == 25

\* base_xp.get(task.difficulty, 25)
BaseXp(difficulty) ==
    CASE difficulty = "easy" -> 10
      [] difficulty = "medium" -> 20
      [] difficulty = "hard" -> 40
      [] difficulty = "expert" -> 100
      [] OTHER -> 25

\* priority_bonus.get(task.priority, 1.0), in hundredths
PriorityBonus(priority) ==
    CASE priority = "low" -> 100
      [] priority = "medium" -> 110
      [] priority = "high" -> 125
      [] priority = "urgent" -> 250
      [] OTHER -> 100

\* The float product x * 1.15 falls just below the exact integer for these x
\* (1.15 is not a binary fraction; IEEE-754 double, round to nearest), so
\* int() truncates to one less than the exact product: int(100 * 1.15) = 114.
\* No other factor of the model has such an operand below 1000.
FloatBelow(x, pct) ==
    /\ pct = 115
    /\ x \in {100, 180, 200, 220, 340, 360, 380, 400, 420, 440, 660, 680, 700,
              720, 740, 760, 780, 800, 820, 840, 860, 880}

\* int(x * f) for the float f = pct / 100
IntMul(x, pct) ==
    IF FloatBelow(x, pct) THEN (x * pct) \div 100 - 1 ELSE (x * pct) \div 100

\* num / den >= c / 4, for den # 0
RatioGE(num, den, c) ==
    IF den > 0 THEN 4 * num >= c * den ELSE 4 * num <= c * den

\* get_timing_modifier and get_timing_status divide by
\* (due_date - created_at).total_seconds()
TimingRaises(task) == task.due_date # NoDate /\ task.due_date = task.created_at

\* get_timing_modifier, in hundredths; defined when ~TimingRaises(task)
get_timing_modifier(task, t) ==
    IF task.due_date = NoDate THEN 100
    ELSE LET time_to_due == task.due_date - t
             total_time == task.due_date - task.created_at
         IN  CASE RatioGE(time_to_due, total_time, 2) -> 130
               [] RatioGE(time_to_due, total_time, 1) -> 115
               [] RatioGE(time_to_due, total_time, 0) -> 100
               [] RatioGE(time_to_due, total_time, 0 - 1) -> 80
               [] RatioGE(time_to_due, total_time, 0 - 2) -> 60
               [] OTHER -> 40

\* the product truncated once, at the end
calculate_task_xp_single_truncation(task, t) ==
    Max((BaseXp(task.difficulty) * task.xp_multiplier * PriorityBonus(task.priority)
            * get_timing_modifier(task, t)) \div 1000000, 1)

\* the category's multiplier left out
calculate_task_xp_without_category(task, t) ==
    Max(IntMul(IntMul(BaseXp(task.difficulty), PriorityBonus(task.priority)),
               get_timing_modifier(task, t)), 1)

calculate_task_xp(task, t) ==
    LET xp1 == IntMul(BaseXp(task.difficulty), task.xp_multiplier)
        xp2 == IntMul(xp1, PriorityBonus(task.priority))
        xp3 == IntMul(xp2, get_timing_modifier(task, t))
    IN  Max(xp3, 1)

\* min_time_requirements.get(task.difficulty, timedelta(hours=1)), in quarter-hours
MinTime(difficulty) ==
    CASE difficulty = "easy" -> 1
      [] difficulty = "medium" -> 4
      [] difficulty = "hard" -> 16
      [] difficulty = "expert" -> QuartersPerDay
      [] OTHER -> 4

\* can_complete_task: the boolean of the returned pair
can_complete_task(task, t) ==
    IF task.due_date = NoDate THEN TRUE
    ELSE ~(t - task.created_at < MinTime(task.difficulty))

----------------------------------------------------------------------------
(* Levels: ProgressProfile.calculate_xp_for_level and update_level *)

RECURSIVE SumLevels(_, _)
\* sum(i * 100 for i in range(from, level + 1))
SumLevels(from, level) ==
    IF from > level THEN 0 ELSE from * 100 + SumLevels(from + 1, level)

\* level * (level - 1) * 100: the curve with 600 and 1200 at levels 3 and 4
calculate_xp_for_level_quadratic(level) ==
    IF level <= 1 THEN 0 ELSE level * (level - 1) * 100

calculate_xp_for_level(level) ==
    IF level <= 1 THEN 0 ELSE SumLevels(2, level)

RECURSIVE LevelLoopOffByOne(_, _)
\* a loop that compares with the requirement of the level already reached
LevelLoopOffByOne(total_xp, level) ==
    IF total_xp >= calculate_xp_for_level(level)
    THEN LevelLoopOffByOne(total_xp, level + 1)
    ELSE level

RECURSIVE LevelLoop(_, _)
\* level = 1; while total_xp >= calculate_xp_for_level(level + 1): level += 1
LevelLoop(total_xp, level) ==
    IF total_xp >= calculate_xp_for_level(level + 1)
    THEN LevelLoop(total_xp, level + 1)
    ELSE level

----------------------------------------------------------------------------
(* Rows *)

\* ProgressProfile.objects.create(user=...): the field defaults
NewProfile ==
    [total_xp |-> 0, current_level |-> 0, current_streak |-> 0,
     longest_streak |-> 0, last_activity_date |-> NoDate]

NoTask == 0                           \* XPLog.task is null

\* XPLog.objects.create(user, action, xp_earned, task, description); the
\* description is kept where it names a row (the achievement unlocked)
XPLogRow(action, xp_earned, task, description) ==
    [action |-> action, xp_earned |-> xp_earned, task |-> task,
     description |-> description]

\* Achievement table (Achievement.objects.all(), in primary-key order): rows an
\* administrator can create.  "First Steps" is the shipped row; the level and
\* streak rows carry the shipped rewards with thresholds the bounded runs reach.
Achievements ==
    << [name |-> "First Steps", achievement_type |-> "task_count",
        threshold |-> 1, xp_reward |-> 25],
       [name |-> "Level Up!", achievement_type |-> "level",
        threshold |-> 2, xp_reward |-> 100],
       [name |-> "Consistency", achievement_type |-> "streak",
        threshold |-> 2, xp_reward |-> 50] >>

AchievementIds == 1..Len(achievements)

\* The tables an engine operation reads and writes, as one value
Store ==
    [tasks |-> tasks, profile |-> profile, xplog |-> xplog,
     ua |-> user_achievements, saves |-> <<profile.total_xp>>]

\* ProgressProfile.save(): every field of the instance is written to the row
Save(db, p) ==
    [db EXCEPT !.profile = p, !.saves = Append(@, p.total_xp)]

NoExc == "none"

----------------------------------------------------------------------------
(* Achievement evaluator *)

CompletedTasks(db) == {t \in DOMAIN db.tasks : db.tasks[t].is_completed}

\* max(category_counts.values()) if category_counts else 0
MaxCategoryCount(db) ==
    LET count(c) == Cardinality({t \in CompletedTasks(db) : db.tasks[t].category = c})
        cats == {db.tasks[t].category : t \in CompletedTasks(db)}
    IN  IF cats = {} THEN 0
        ELSE CHOOSE n \in {count(c) : c \in cats} :
                 \A m \in {count(c) : c \in cats} : m <= n

\* get_achievement_progress, read through the engine's own profile instance p
get_achievement_progress(db, p, a) ==
    LET type == achievements[a].achievement_type
    IN  CASE type = "task_count" -> Cardinality(CompletedTasks(db))
          [] type = "streak" -> p.longest_streak
          [] type = "level" -> p.current_level
          [] type = "xp" -> p.total_xp
          [] type = "category" -> MaxCategoryCount(db)
          [] type = "timing" ->
                Cardinality({t \in CompletedTasks(db) :
                    /\ db.tasks[t].due_date # NoDate
                    /\ db.tasks[t].completed_at < db.tasks[t].due_date})
          [] OTHER -> 0

\* UserAchievement.objects.filter(user, achievement).exists()
UserAchievementExists(db, a) ==
    \E i \in DOMAIN db.ua : db.ua[i].achievement = a

RECURSIVE update_level(_, _)
RECURSIVE unlock_achievement(_, _, _)
RECURSIVE CheckLevelFrom(_, _, _, _, _)
RECURSIVE CheckAllFrom(_, _, _, _)

\* an unlock that pays the reward without recording the UserAchievement row
unlock_achievement_without_row(db, p, a) ==
    LET entry == XPLogRow("achievement", achievements[a].xp_reward, NoTask,
                          achievements[a].name)
        p1 == [p EXCEPT !.total_xp = @ + achievements[a].xp_reward]
    IN  update_level(Save([db EXCEPT !.xplog = Append(@, entry)], p1), p1)

\* unlock_achievement: the row (unique per user and achievement), the ledger
\* entry, the cached total, the save and the level update
unlock_achievement(db, p, a) ==
    IF UserAchievementExists(db, a)
    THEN [db |-> db, p |-> p, exc |-> "IntegrityError"]
    ELSE LET row == [achievement |-> a,
                     progress |-> get_achievement_progress(db, p, a)]
             entry == XPLogRow("achievement", achievements[a].xp_reward, NoTask,
                               achievements[a].name)
             p1 == [p EXCEPT !.total_xp = @ + achievements[a].xp_reward]
             db1 == Save([db EXCEPT !.ua = Append(@, row),
                                    !.xplog = Append(@, entry)], p1)
         IN  update_level(db1, p1)

\* the loop of check_level_achievements after the unlock of achievement a
\* returned r: an exception ends the call, otherwise the loop goes on
CheckLevelAfter(r, old_level, new_level, a) ==
    IF r.exc # NoExc THEN r
    ELSE CheckLevelFrom(r.db, r.p, old_level, new_level, a + 1)

\* the loop of check_level_achievements over the level achievements with
\* old_level < threshold <= new_level, from table position a on
CheckLevelFrom(db, p, old_level, new_level, a) ==
    IF a > Len(achievements) THEN [db |-> db, p |-> p, exc |-> NoExc]
    ELSE IF /\ achievements[a].achievement_type = "level"
            /\ achievements[a].threshold <= new_level
            /\ achievements[a].threshold > old_level
            /\ ~UserAchievementExists(db, a)
         THEN CheckLevelAfter(unlock_achievement(db, p, a), old_level, new_level, a)
         ELSE CheckLevelFrom(db, p, old_level, new_level, a + 1)

check_level_achievements(db, p, old_level, new_level) ==
    CheckLevelFrom(db, p, old_level, new_level, 1)

\* ProgressProfile.update_level on the instance p: on a level-up the instance
\* is saved (the store db of LevelUp) and a second engine, with its own instance
\* read from the row, unlocks the level achievements; p itself is not refreshed
LevelUp(db, p, old_level, level) ==
    [check_level_achievements(db, db.profile, old_level, level) EXCEPT !.p = p]

update_level(db, p) ==
    LET old_level == p.current_level
        level == LevelLoop(p.total_xp, 1)
        p1 == [p EXCEPT !.current_level = level]
    IN  IF level > old_level
        THEN LevelUp(Save(db, p1), p1, old_level, level)
        ELSE [db |-> db, p |-> p1, exc |-> NoExc]

\* the loop of check_all_achievements after the unlock of achievement a
\* returned r: an exception ends the call, otherwise a is newly unlocked
CheckAllAfter(r, a, newly_unlocked) ==
    IF r.exc # NoExc
    THEN [db |-> r.db, p |-> r.p, exc |-> r.exc, newly_unlocked |-> newly_unlocked]
    ELSE CheckAllFrom(r.db, r.p, a + 1, Append(newly_unlocked, a))

\* the loop of check_all_achievements from table position a on
CheckAllFrom(db, p, a, newly_unlocked) ==
    IF a > Len(achievements)
    THEN [db |-> db, p |-> p, exc |-> NoExc, newly_unlocked |-> newly_unlocked]
    ELSE IF /\ ~UserAchievementExists(db, a)
            /\ get_achievement_progress(db, p, a) >= achievements[a].threshold
         THEN CheckAllAfter(unlock_achievement(db, p, a), a, newly_unlocked)
         ELSE CheckAllFrom(db, p, a + 1, newly_unlocked)

check_all_achievements(db, p) == CheckAllFrom(db, p, 1, <<>>)

----------------------------------------------------------------------------
(* Streak tracker *)

\* a bonus paid at every positive multiple of 5
StreakBonusEveryFifthDay(current_streak) ==
    IF current_streak > 0 /\ current_streak % 5 = 0 THEN current_streak * 5 ELSE 0

\* the bonus of update_streak for the streak just reached: streak * 5 at
\* every positive multiple of 7, otherwise 0
StreakBonus(current_streak) ==
    IF current_streak > 0 /\ current_streak % 7 = 0 THEN current_streak * 5 ELSE 0

\* update_streak past its same-day check: the streak is continued or reset, the
\* longest streak raised, the bonus logged, the day recorded and the row saved
AdvanceStreak(db, p, today) ==
    LET yesterday == today - 1
        current_streak ==
            IF p.last_activity_date = NoDate THEN 1
            ELSE IF p.last_activity_date = yesterday THEN p.current_streak + 1
            ELSE 1
        longest_streak ==
            IF current_streak > p.longest_streak THEN current_streak
            ELSE p.longest_streak
        streak_bonus == StreakBonus(current_streak)
        db1 == IF streak_bonus > 0
               THEN [db EXCEPT !.xplog =
                        Append(@, XPLogRow("streak_bonus", streak_bonus, NoTask, ""))]
               ELSE db
        p1 == [p EXCEPT !.current_streak = current_streak,
                        !.longest_streak = longest_streak,
                        !.last_activity_date = today]
    IN  [db |-> Save(db1, p1), p |-> p1, streak_bonus |-> streak_bonus]

\* an update_streak without the same-day check
update_streak_unguarded(db, p, today) == AdvanceStreak(db, p, today)

\* update_streak on the engine's profile instance p, on calendar day today
update_streak(db, p, today) ==
    IF p.last_activity_date = today
    THEN [db |-> db, p |-> p, streak_bonus |-> 0]
    ELSE AdvanceStreak(db, p, today)

\* completion_dates = sorted(set(task.completed_at.date() ...))
CompletionDates(db) == {Date(db.tasks[t].completed_at) : t \in CompletedTasks(db)}

MinOf(S) == CHOOSE x \in S : \A y \in S : x <= y
MaxOf(S) == CHOOSE x \in S : \A y \in S : y <= x

RECURSIVE WalkDatesWithoutReset(_, _, _, _)
\* a walk that counts every completion date, gap or not
WalkDatesWithoutReset(dates, current_streak, longest_streak, last_date) ==
    IF dates = {}
    THEN [current_streak |-> current_streak, longest_streak |-> longest_streak]
    ELSE WalkDatesWithoutReset(dates \ {MinOf(dates)}, current_streak + 1,
                               longest_streak, MinOf(dates))

RECURSIVE WalkDates(_, _, _, _)
\* the for loop of recalculate_streak over the dates still to visit
WalkDates(dates, current_streak, longest_streak, last_date) ==
    IF dates = {}
    THEN [current_streak |-> current_streak, longest_streak |-> longest_streak]
    ELSE LET date == MinOf(dates)
         IN  IF last_date = NoDate \/ date = last_date + 1
             THEN WalkDates(dates \ {date}, current_streak + 1, longest_streak, date)
             ELSE WalkDates(dates \ {date}, 1,
                            Max(longest_streak, current_streak), date)

\* a recalculation that stores the longest finished run only
recalculate_streak_without_final_max(db, p) ==
    IF CompletedTasks(db) = {}
    THEN LET p1 == [p EXCEPT !.current_streak = 0, !.longest_streak = 0,
                             !.last_activity_date = NoDate]
         IN  [db |-> Save(db, p1), p |-> p1, returned |-> FALSE]
    ELSE LET w == WalkDates(CompletionDates(db), 0, 0, NoDate)
             p1 == [p EXCEPT !.current_streak = w.current_streak,
                             !.longest_streak = w.longest_streak,
                             !.last_activity_date = MaxOf(CompletionDates(db))]
         IN  [db |-> Save(db, p1), p |-> p1, returned |-> TRUE]

\* recalculate_streak on the engine's profile instance p
recalculate_streak(db, p) ==
    IF CompletedTasks(db) = {}
    THEN LET p1 == [p EXCEPT !.current_streak = 0, !.longest_streak = 0,
                             !.last_activity_date = NoDate]
         IN  [db |-> Save(db, p1), p |-> p1, returned |-> FALSE]
    ELSE LET w == WalkDates(CompletionDates(db), 0, 0, NoDate)
             p1 == [p EXCEPT !.current_streak = w.current_streak,
                             !.longest_streak = Max(w.longest_streak, w.current_streak),
                             !.last_activity_date = MaxOf(CompletionDates(db))]
         IN  [db |-> Save(db, p1), p |-> p1, returned |-> TRUE]

----------------------------------------------------------------------------
(* Task completion *)

\* award_task_xp once the level is updated (u): the achievement check and the
\* returned XP
AwardChecked(u, c, xp_earned) ==
    IF u.exc # NoExc
    THEN [db |-> u.db, p |-> u.p, exc |-> u.exc, xp_earned |-> xp_earned,
          awarded |-> TRUE]
    ELSE [db |-> c.db, p |-> c.p, exc |-> c.exc, xp_earned |-> xp_earned,
          awarded |-> TRUE]

AwardLevelled(u, xp_earned) ==
    AwardChecked(u, check_all_achievements(u.db, u.p), xp_earned)

\* award_task_xp once the streak is updated (s): the task_complete entry of
\* xp_earned, the cached total, the save and the level update
AwardLogged(s, task, xp_earned) ==
    LET db1 == [s.db EXCEPT !.xplog =
                   Append(@, XPLogRow("task_complete", xp_earned, task.id, ""))]
        p1 == [s.p EXCEPT !.total_xp = @ + xp_earned]
    IN  AwardLevelled(update_level(Save(db1, p1), p1), xp_earned)

\* an award_task_xp that updates the streak before it looks at the task
award_task_xp_streak_first(db, p, task, t) ==
    LET s == update_streak(db, p, Date(t))
    IN  IF ~can_complete_task(task, t)
        THEN [db |-> s.db, p |-> s.p, exc |-> NoExc, xp_earned |-> 0, awarded |-> FALSE]
        ELSE IF TimingRaises(task)
        THEN [db |-> db, p |-> p, exc |-> "ZeroDivisionError", xp_earned |-> 0,
              awarded |-> FALSE]
        ELSE AwardLogged(s, task, calculate_task_xp(task, t) + s.streak_bonus)

\* award_task_xp(task) on the engine's profile instance p at time t
award_task_xp(db, p, task, t) ==
    IF ~can_complete_task(task, t)
    THEN [db |-> db, p |-> p, exc |-> NoExc, xp_earned |-> 0, awarded |-> FALSE]
    ELSE IF TimingRaises(task)
    THEN [db |-> db, p |-> p, exc |-> "ZeroDivisionError", xp_earned |-> 0,
          awarded |-> FALSE]
    ELSE LET s == update_streak(db, p, Date(t))
         IN  AwardLogged(s, task, calculate_task_xp(task, t) + s.streak_bonus)

\* what complete_task returns after the award a
Completed(a) ==
    [db |-> a.db, ok |-> a.exc = NoExc, message |-> "Task completed!",
     exc |-> a.exc, xp_earned |-> a.xp_earned]

\* Task.complete_task on the in-memory instance task at time t; the engine is
\* constructed inside and reads the profile row then
complete_task(db, task, t) ==
    IF task.is_completed
    THEN [db |-> db, ok |-> FALSE, message |-> "Task is already completed",
          exc |-> NoExc, xp_earned |-> 0]
    ELSE IF ~can_complete_task(task, t)
    THEN [db |-> db, ok |-> FALSE, message |-> "Task created too recently",
          exc |-> NoExc, xp_earned |-> 0]
    ELSE LET task1 == [task EXCEPT !.is_completed = TRUE, !.completed_at = t]
             db1 == [db EXCEPT !.tasks[task.id] = task1]
         IN  Completed(award_task_xp(db1, db.profile, task1, t))

----------------------------------------------------------------------------
(* Missions *)

\* a UserMission row as created from a template: active, no progress; the
\* fields of the model that the mission operations read, and the mission_type
\* of its template (template__mission_type in a query)
MissionRow(target_value) ==
    [template__mission_type |-> "daily_goal", target_value |-> target_value,
     current_progress |-> 0, status |-> "active", xp_reward |-> 50]

\* a keyword of UserMission.objects.filter(...) resolves into a field of the model
ResolvesIntoField(keyword) == keyword \in DOMAIN MissionRow(1)

\* MissionService._award_mission_rewards: the ledger entry, then the reward on a
\* profile instance read from the row, saved, and its level updated
award_mission_rewards(db, mission) ==
    LET db1 == [db EXCEPT !.xplog =
                   Append(@, XPLogRow("mission_complete", mission.xp_reward, NoTask, ""))]
        p1 == [db1.profile EXCEPT !.total_xp = @ + mission.xp_reward]
    IN  update_level(Save(db1, p1), p1)

RECURSIVE MissionLoop(_, _, _, _, _)

\* the loop after the rewards of the completed mission m (row done) returned r:
\* an exception ends the call before mission.save()
MissionLoopAfter(r, ms, m, done, todo, progress_value, completed) ==
    IF r.exc # NoExc
    THEN [db |-> r.db, ms |-> ms, completed |-> completed \cup {m}, exc |-> r.exc]
    ELSE MissionLoop(r.db, [ms EXCEPT ![m] = done], todo \ {m},
                     progress_value, completed \cup {m})

\* the for loop of MissionService.update_mission_progress over the missions
\* todo (the rows the query selected), newest first (ordering = ['-created_at'])
MissionLoop(db, ms, todo, progress_value, completed) ==
    IF todo = {} THEN [db |-> db, ms |-> ms, completed |-> completed, exc |-> NoExc]
    ELSE LET m == MaxOf(todo)
             progress == Min(ms[m].current_progress + progress_value, ms[m].target_value)
             mission == [ms[m] EXCEPT !.current_progress = progress]
         IN  IF progress >= mission.target_value
             THEN LET done == [mission EXCEPT !.is_completed = TRUE]
                  IN  MissionLoopAfter(award_mission_rewards(db, done), ms, m, done,
                                       todo, progress_value, completed)
             ELSE MissionLoop(db, [ms EXCEPT ![m] = mission], todo \ {m},
                              progress_value, completed)

\* MissionService.update_mission_progress(user_id, mission_type, progress_value).
\* The query filters on is_completed; UserMission has no such field (its state
\* is status), so filter() raises FieldError before any row is read.
update_mission_progress(db, ms, mission_type, progress_value) ==
    IF ~ResolvesIntoField("is_completed")
    THEN [db |-> db, ms |-> ms, completed |-> {}, exc |-> "FieldError"]
    ELSE LET active_missions == {m \in DOMAIN ms :
                                    /\ ~ms[m].is_completed
                                    /\ ms[m].template__mission_type = mission_type}
         IN  MissionLoop(db, ms, active_missions, progress_value, {})

\* UserMission.complete_mission() on the instance mission of row m: the
\* completed row is saved, then engine.award_mission_xp is called, which
\* GamificationEngine does not define
complete_mission(ms, m, mission) ==
    IF mission.status # "active"
    THEN [ms |-> ms, returned |-> FALSE, exc |-> NoExc]
    ELSE [ms |-> [ms EXCEPT ![m] = [mission EXCEPT !.status = "completed"]],
          returned |-> FALSE, exc |-> "AttributeError"]

\* UserMission.update_progress(increment) on the instance read from row m
update_progress(ms, m, increment) ==
    IF ms[m].status # "active"
    THEN [ms |-> ms, returned |-> FALSE, exc |-> NoExc]
    ELSE LET mission == [ms[m] EXCEPT !.current_progress = @ + increment]
         IN  IF mission.current_progress >= mission.target_value
             THEN complete_mission(ms, m, mission)
             ELSE [ms |-> [ms EXCEPT ![m] = mission], returned |-> TRUE, exc |-> NoExc]

\* Notification.objects.create(...) at time t
NotificationCreated(ns, t) ==
    ns \cup {[id |-> Cardinality(ns) + 1, created_at |-> t]}

\* a fail_mission that does not look at the status
fail_mission_unguarded(ms, ns, m, t) ==
    [ms |-> [ms EXCEPT ![m].status = "failed"], ns |-> NotificationCreated(ns, t),
     returned |-> TRUE]

\* UserMission.fail_mission() on the instance read from row m, at time t
fail_mission(ms, ns, m, t) ==
    IF ms[m].status # "active"
    THEN [ms |-> ms, ns |-> ns, returned |-> FALSE]
    ELSE [ms |-> [ms EXCEPT ![m].status = "failed"], ns |-> NotificationCreated(ns, t),
          returned |-> TRUE]

\* MissionViewSet.abandon_mission: get_object_or_404 on an active mission of
\* the user, then the status saved
abandon_mission(ms, m) ==
    IF ms[m].status # "active"
    THEN [ms |-> ms, response |-> 404]
    ELSE [ms |-> [ms EXCEPT ![m].status = "abandoned"], response |-> 200]

----------------------------------------------------------------------------
(* Leaderboards: LeaderboardService.update_rankings and _calculate_user_scores *)

\* a User row with what the batch services read of the user: the last login,
\* whether a ProgressProfile row exists and its streak and completion counters,
\* the completed_at of the user's completed tasks and the user's XPLog entries;
\* place is where the default ordering of the Task table (-created_at) puts the
\* user's tasks among those of the other users, 0 until the tables are set up
UserRow(last_login, has_profile, completed_at, xp_log, current_streak, early, on_time, late) ==
    [place |-> 0, last_login |-> last_login, has_profile |-> has_profile,
     completed_at |-> completed_at, xp_log |-> xp_log,
     current_streak |-> current_streak, total_early_completions |-> early,
     total_on_time_completions |-> on_time, total_late_completions |-> late]

\* an XPLog entry of another user: when it was created and what it granted
XpEntry(created_at, xp_earned) == [created_at |-> created_at, xp_earned |-> xp_earned]

\* ProgressProfile.punctuality_rate() of the profile of user row u
punctuality_rate(u) ==
    LET total_timed_tasks == u.total_early_completions + u.total_on_time_completions
                                + u.total_late_completions
    IN  IF total_timed_tasks = 0 THEN 100
        ELSE ((u.total_early_completions + u.total_on_time_completions) * 100)
                \div total_timed_tasks

\* the indices of a sequence of instants that lie in [start_date, end_date]
\* (a __range lookup includes both ends)
InRange(instants, start_date, end_date) ==
    {i \in DOMAIN instants : start_date <= instants[i] /\ instants[i] <= end_date}

\* the users with a task completed in the period
ActiveUsers(us, start_date, end_date) ==
    {u \in DOMAIN us : InRange(us[u].completed_at, start_date, end_date) # {}}

RECURSIVE SumXpEarned(_, _)
\* Sum('xp_earned') over the entries idx of xp_log, 0 for none
SumXpEarned(xp_log, idx) ==
    IF idx = {} THEN 0
    ELSE LET i == MinOf(idx) IN xp_log[i].xp_earned + SumXpEarned(xp_log, idx \ {i})

\* the score data of one user: the body of the loop of _calculate_user_scores
UserScore(us, user_id, start_date, end_date) ==
    LET u == us[user_id]
        xp_earned == SumXpEarned(u.xp_log,
                         {i \in DOMAIN u.xp_log :
                             /\ start_date <= u.xp_log[i].created_at
                             /\ u.xp_log[i].created_at <= end_date})
        current_streak == IF u.has_profile THEN u.current_streak ELSE 0
        rate == IF u.has_profile THEN punctuality_rate(u) ELSE 100
        tasks_completed == Cardinality(InRange(u.completed_at, start_date, end_date))
        base_score == tasks_completed * 10 + xp_earned
        streak_bonus == current_streak * 5
        punctuality_bonus == rate * 2
    IN  [user_id |-> user_id,
         total_score |-> base_score + streak_bonus + punctuality_bonus,
         tasks_completed |-> tasks_completed, total_xp |-> xp_earned,
         current_streak |-> current_streak, punctuality_rate |-> rate]

\* an unstable placement: x goes before the items of its own score
InsertBeforeEqualScores(sorted, x) ==
    LET k == Cardinality({i \in DOMAIN sorted : sorted[i].total_score > x.total_score})
    IN  SubSeq(sorted, 1, k) \o <<x>> \o SubSeq(sorted, k + 1, Len(sorted))

\* sorted(..., reverse=True) is stable: an item goes after every item already
\* placed whose score is at least its own
InsertByScore(sorted, x) ==
    LET k == Cardinality({i \in DOMAIN sorted : sorted[i].total_score >= x.total_score})
    IN  SubSeq(sorted, 1, k) \o <<x>> \o SubSeq(sorted, k + 1, Len(sorted))

RECURSIVE SortedByScore(_, _)
\* sorted(user_scores.items(), key=total_score, reverse=True): the items still
\* to place, in the dict's order, behind those already placed
SortedByScore(sorted, items) ==
    IF items = <<>> THEN sorted
    ELSE SortedByScore(InsertByScore(sorted, Head(items)), Tail(items))

\* the users S in the order in which a query over the Task table hands them out
QueryOrder(us, S) ==
    [i \in 1..Cardinality(S) |->
        CHOOSE u \in S : Cardinality({v \in S : us[v].place < us[u].place}) = i - 1]

\* the user_scores dict before it is sorted: an item per active user, in the
\* order of the query
ScoreItems(us, order, start_date, end_date) ==
    [i \in DOMAIN order |-> UserScore(us, order[i], start_date, end_date)]

\* _calculate_user_scores(start_date, end_date)
calculate_user_scores(us, start_date, end_date) ==
    SortedByScore(<<>>, ScoreItems(us, QueryOrder(us, ActiveUsers(us, start_date, end_date)),
                                   start_date, end_date))

\* datetime(2020, 1, 1), a year before the runs begin
StartOfRecords == 0 - 365 * QuartersPerDay

\* start_date of update_rankings for a period ending at t
PeriodStart(period, t) ==
    CASE period = "daily" -> t - QuartersPerDay
      [] period = "weekly" -> t - 7 * QuartersPerDay
      [] period = "monthly" -> t - 30 * QuartersPerDay
      [] OTHER -> StartOfRecords

\* limit of get_leaderboard when the caller gives none
DefaultLimit == 10

\* leaderboard_type of the LeaderboardType row update_rankings gets or creates
LeaderboardTypeOf(period) == IF period = "all_time" THEN "global" ELSE period

\* the entries one update_rankings(period) run at time t writes, the rank of
\* the i-th item being i (enumerate(..., 1))
RankedEntries(us, period, t) ==
    LET user_scores == calculate_user_scores(us, PeriodStart(period, t), t)
    IN  [i \in DOMAIN user_scores |->
            [leaderboard_type |-> LeaderboardTypeOf(period),
             user_id |-> user_scores[i].user_id,
             period_start |-> PeriodStart(period, t), period_end |-> t,
             score |-> user_scores[i].total_score, rank |-> i,
             tasks_completed |-> user_scores[i].tasks_completed,
             total_xp |-> user_scores[i].total_xp,
             streak_count |-> user_scores[i].current_streak,
             punctuality_rate |-> user_scores[i].punctuality_rate]]

\* the lookup of update_or_create: leaderboard_type, user_id, period_start
\* and period_end
SameEntry(row, e) ==
    /\ row.leaderboard_type = e.leaderboard_type
    /\ row.user_id = e.user_id
    /\ row.period_start = e.period_start
    /\ row.period_end = e.period_end

\* unique_together = ['leaderboard_type', 'user', 'period_start']
SameUnique(row, e) ==
    /\ row.leaderboard_type = e.leaderboard_type
    /\ row.user_id = e.user_id
    /\ row.period_start = e.period_start

RECURSIVE UpdateOrCreateEntries(_, _)
\* the loop of update_or_create calls over the entries of the run: a row the
\* lookup finds is updated, otherwise one is created, which the unique
\* constraint may refuse; the rows written before stay (no transaction)
UpdateOrCreateEntries(table, run) ==
    IF run = <<>> THEN [table |-> table, exc |-> NoExc]
    ELSE IF \E i \in DOMAIN table : SameEntry(table[i], Head(run))
    THEN UpdateOrCreateEntries(
             [i \in DOMAIN table |->
                 IF SameEntry(table[i], Head(run)) THEN Head(run) ELSE table[i]],
             Tail(run))
    ELSE IF \E i \in DOMAIN table : SameUnique(table[i], Head(run))
    THEN [table |-> table, exc |-> "IntegrityError"]
    ELSE UpdateOrCreateEntries(Append(table, Head(run)), Tail(run))

\* LeaderboardService.update_rankings(period) at time t on the table
update_rankings(table, us, period, t) ==
    UpdateOrCreateEntries(table, RankedEntries(us, period, t))

\* the rows of get_leaderboard's query: those of the type, by rank; rows of
\* equal rank come in the order of their ids or against it (the query names
\* no second key)
RECURSIVE RowsByRank(_, _)
RowsByRank(rows, newest_first) ==
    IF rows = {} THEN <<>>
    ELSE LET lowest == {r \in rows : \A q \in rows : r.rank <= q.rank}
             first == CHOOSE r \in lowest :
                         \A q \in lowest : IF newest_first THEN r.id >= q.id
                                                            ELSE r.id <= q.id
         IN  <<first>> \o RowsByRank(rows \ {first}, newest_first)

\* LeaderboardService.get_leaderboard(leaderboard_type, limit): the first
\* limit rows of the query, as the list of dicts
get_leaderboard(table, leaderboard_type, limit, newest_first) ==
    LET rows == {[id |-> i, rank |-> table[i].rank] :
                    i \in {j \in DOMAIN table :
                              table[j].leaderboard_type = leaderboard_type}}
        ordered == RowsByRank(rows, newest_first)
    IN  [k \in 1..Min(limit, Len(ordered)) |->
            [rank |-> table[ordered[k].id].rank,
             user_id |-> table[ordered[k].id].user_id,
             score |-> table[ordered[k].id].score,
             tasks_completed |-> table[ordered[k].id].tasks_completed,
             total_xp |-> table[ordered[k].id].total_xp,
             streak_count |-> table[ordered[k].id].streak_count,
             punctuality_rate |-> table[ordered[k].id].punctuality_rate]]

\* the orders in which the users S may come
Orders(S) ==
    {order \in [1..Cardinality(S) -> S] :
        \A i, j \in 1..Cardinality(S) : i # j => order[i] # order[j]}

----------------------------------------------------------------------------
(* Daily missions and maintenance: MissionService.assign_daily_missions and
   SystemService.run_daily_maintenance *)

\* assign_daily_missions(user_id): a user without a profile gets no missions;
\* for any other user the query for today's missions filters on assigned_date
\* and mission_type, neither a field of UserMission, so filter() raises
\* FieldError.  (Had the keywords resolved, the next statement reached for a
\* user without missions evaluates profile.level, which ProgressProfile does
\* not define.)
assign_daily_missions(us, user_id) ==
    IF ~us[user_id].has_profile
    THEN [missions |-> {}, exc |-> NoExc]
    ELSE IF ~(ResolvesIntoField("assigned_date") /\ ResolvesIntoField("mission_type"))
    THEN [missions |-> {}, exc |-> "FieldError"]
    ELSE [missions |-> {}, exc |-> "AttributeError"]

\* the results dict run_daily_maintenance starts from; error stands for the
\* key the except clause adds
MaintenanceResults ==
    [leaderboards_updated |-> FALSE, missions_assigned |-> 0,
     notifications_cleaned |-> 0, achievements_checked |-> 0, error |-> NoExc]

\* the steps of the batch at which the run may be made to fail: a query the
\* database refuses
Failures == {"none", "update_rankings", "notifications", "set_setting"}

\* the tables of the batch services as one store
BatchStore ==
    [users |-> users, leaderboard |-> leaderboard, notifications |-> notifications,
     settings |-> settings]

\* the state of the try block: the tables, the results so far and the
\* exception that left the block, if any
Running(sys, results, exc) == [sys |-> sys, results |-> results, exc |-> exc]

\* LeaderboardService.update_rankings('daily'), then the flag
MaintenanceRanked(sys, r) ==
    IF r.exc # NoExc
    THEN Running([sys EXCEPT !.leaderboard = r.table], MaintenanceResults, r.exc)
    ELSE Running([sys EXCEPT !.leaderboard = r.table],
                 [MaintenanceResults EXCEPT !.leaderboards_updated = TRUE], NoExc)

MaintenanceRankings(sys, fail, t) ==
    IF fail = "update_rankings"
    THEN Running(sys, MaintenanceResults, "OperationalError")
    ELSE MaintenanceRanked(sys, update_rankings(sys.leaderboard, sys.users, "daily", t))

RECURSIVE AssignLoop(_, _, _)
\* the for loop over active_users (todo), in the order of their ids
AssignLoop(r, todo, assigned) ==
    IF todo = {}
    THEN Running(r.sys, [r.results EXCEPT !.missions_assigned = assigned], NoExc)
    ELSE LET a == assign_daily_missions(r.sys.users, MinOf(todo))
         IN  IF a.exc # NoExc
             THEN Running(r.sys, [r.results EXCEPT !.missions_assigned = assigned], a.exc)
             ELSE AssignLoop(r, todo \ {MinOf(todo)}, assigned + Cardinality(a.missions))

\* the users who logged in during the last 7 days, and their daily missions
MaintenanceAssign(r, t) ==
    IF r.exc # NoExc THEN r
    ELSE AssignLoop(r, {u \in DOMAIN r.sys.users :
                           r.sys.users[u].last_login >= t - 7 * QuartersPerDay}, 0)

\* the notifications created more than 30 days before t
OldNotifications(ns, t) == {n \in ns : n.created_at < t - 30 * QuartersPerDay}

\* count() and delete() of the old notifications, then the counter
MaintenancePurge(r, fail, t) ==
    IF r.exc # NoExc THEN r
    ELSE IF fail = "notifications" THEN Running(r.sys, r.results, "OperationalError")
    ELSE Running([r.sys EXCEPT !.notifications = @ \ OldNotifications(@, t)],
                 [r.results EXCEPT !.notifications_cleaned =
                     Cardinality(OldNotifications(r.sys.notifications, t))],
                 NoExc)

\* set_setting('last_maintenance_run', now)
MaintenanceSetting(r, fail, t) ==
    IF r.exc # NoExc THEN r
    ELSE IF fail = "set_setting" THEN Running(r.sys, r.results, "OperationalError")
    ELSE Running([r.sys EXCEPT !.settings.last_maintenance_run = t], r.results, NoExc)

\* a handler that lets the exception through
Propagated(r) == r

\* except Exception as e: results['error'] = str(e); nothing leaves the call
Caught(r) ==
    IF r.exc = NoExc THEN r
    ELSE Running(r.sys, [r.results EXCEPT !.error = r.exc], NoExc)

\* run_daily_maintenance() at time t
run_daily_maintenance(sys, fail, t) ==
    Caught(MaintenanceSetting(
               MaintenancePurge(
                   MaintenanceAssign(MaintenanceRankings(sys, fail, t), t),
                   fail, t),
               fail, t))

----------------------------------------------------------------------------
(* Weekly review: GamificationEngine.generate_weekly_review.  The review's
   total_xp, suggestions and category_breakdown are texts and sums that no
   other code reads; the rows keep the counts and the score. *)

DaysPerWeek == 7

\* the user's completed tasks whose completion date lies in [start, end]
WeekTasks(ts, start_date, end_date) ==
    {t \in DOMAIN ts : /\ ts[t].is_completed
                       /\ Date(ts[t].completed_at) >= start_date
                       /\ Date(ts[t].completed_at) <= end_date}

\* the tasks of the timing analysis: those of the week with a due date
DueTasks(ts, week) == {t \in week : ts[t].due_date # NoDate}

\* time_ratio divides by (due_date - created_at).total_seconds()
ReviewRaises(ts, week) ==
    \E t \in DueTasks(ts, week) :
        ts[t].completed_at <= ts[t].due_date /\ ts[t].due_date = ts[t].created_at

\* time_ratio >= 0.25
EarlyTasks(ts, week) ==
    {t \in DueTasks(ts, week) :
        /\ ts[t].completed_at <= ts[t].due_date
        /\ RatioGE(ts[t].due_date - ts[t].completed_at,
                   ts[t].due_date - ts[t].created_at, 1)}

OnTimeTasks(ts, week) ==
    {t \in DueTasks(ts, week) :
        /\ ts[t].completed_at <= ts[t].due_date
        /\ ~RatioGE(ts[t].due_date - ts[t].completed_at,
                    ts[t].due_date - ts[t].created_at, 1)}

LateTasks(ts, week) ==
    {t \in DueTasks(ts, week) : ts[t].completed_at > ts[t].due_date}

\* int(timing_score + productivity_score), where
\*   timing_score = min(((early * 2 + on_time * 1.5) / total) * 50, 100)
\*   productivity_score = min((total / 7) * 20, 50)
\* computed over the common denominator 7 * total; the sum is no integer
\* unless 7 divides total, so the float's truncation is the exact floor
performance_score(total, early, on_time) ==
    IF total = 0 THEN 0
    ELSE LET den == DaysPerWeek * total
             timing == Min((4 * early + 3 * on_time) * 25 * DaysPerWeek, 100 * den)
             productivity == Min(20 * total * total, 50 * den)
         IN  (timing + productivity) \div den

\* the row WeeklyReview.objects.create() writes
WeeklyReviewRow(start_date, end_date, total, early, on_time, late) ==
    [week_start |-> start_date, week_end |-> end_date, total_tasks |-> total,
     early_completions |-> early, on_time_completions |-> on_time,
     late_completions |-> late,
     performance_score |-> performance_score(total, early, on_time)]

\* unique_together = ['user', 'week_start']
ReviewExists(reviews, start_date) == \E r \in reviews : r.week_start = start_date

ReviewOf(ts, week, start_date, end_date) ==
    WeeklyReviewRow(start_date, end_date, Cardinality(week),
                    Cardinality(EarlyTasks(ts, week)),
                    Cardinality(OnTimeTasks(ts, week)),
                    Cardinality(LateTasks(ts, week)))

ReviewCreated(reviews, row) ==
    [reviews |-> reviews \cup {row}, score |-> row.performance_score, exc |-> NoExc]

generate_weekly_review(ts, reviews, t) ==
    LET end_date == Date(t)
        start_date == Date(t) - DaysPerWeek
    IN  IF ReviewRaises(ts, WeekTasks(ts, start_date, end_date))
        THEN [reviews |-> reviews, score |-> 0, exc |-> "ZeroDivisionError"]
        ELSE IF ReviewExists(reviews, start_date)
        THEN [reviews |-> reviews, score |-> 0, exc |-> "IntegrityError"]
        ELSE ReviewCreated(reviews,
                 ReviewOf(ts, WeekTasks(ts, start_date, end_date), start_date, end_date))

----------------------------------------------------------------------------
(* Initial state: a user who has signed up (the post_save signal created the
   profile), has created tasks and holds missions; nothing completed yet *)

\* Task rows as TaskSerializer creates them at time 0: the fields the engine reads
TaskRow(id, difficulty, priority, due_date) ==
    [id |-> id, difficulty |-> difficulty, priority |-> priority,
     xp_multiplier |-> 100, category |-> 1, created_at |-> 0, due_date |-> due_date,
     is_completed |-> FALSE, completed_at |-> NoDate]

\* the kinds of task of the runs: a large one, one with a deadline a day after
\* creation, and the end-to-end task of the documentation (easy, medium priority,
\* no deadline)
TaskKinds ==
    << <<"expert", "urgent", NoDate>>,
       <<"hard", "high", QuartersPerDay>>,
       <<"easy", "medium", NoDate>> >>

\* n tasks, task t of kind kinds[t] (cyclically)
TaskTable(n, kinds) ==
    [t \in 1..n |->
        LET k == kinds[((t - 1) % Len(kinds)) + 1]
        IN  TaskRow(t, k[1], k[2], k[3])]

\* mission m asks for m + 1 units (2, 3, ...)
MissionTable(n) == [m \in 1..n |-> MissionRow(m + 1)]

\* what an operation returned, and the calendar day it ran on
Result(op, ok, value, exc) ==
    [op |-> op, ok |-> ok, value |-> value, exc |-> exc, day |-> Today]

IdleRequest == [pc |-> "idle", task |-> TaskRow(NoTask, "", "", NoDate), p |-> NewProfile,
                response |-> ""]

\* the user of the engine's runs: logged in, with a profile, nothing completed
EngineUser == [UserRow(0, TRUE, <<>>, <<>>, 0, 0, 0, 0) EXCEPT !.place = 1]

\* the engine's tables and the clock
InitEngine ==
    /\ now = 0
    /\ profile = NewProfile
    /\ xplog = <<>>
    /\ user_achievements = <<>>
    /\ saves = <<0>>
    /\ requests = [r \in 1..NumRequests |-> IdleRequest]
    /\ result = Result("none", TRUE, 0, NoExc)

\* no leaderboard written, no maintenance run yet
InitBatch ==
    /\ weekly_reviews = {}
    /\ leaderboard = <<>>
    /\ settings = [last_maintenance_run |-> NoDate]
    /\ maintenance = MaintenanceResults

\* one user, no notification
InitUser ==
    /\ InitEngine
    /\ InitBatch
    /\ users = <<EngineUser>>
    /\ notifications = {}

InitCommon ==
    /\ InitUser
    /\ achievements = Achievements

Init ==
    /\ InitCommon
    /\ missions = MissionTable(NumMissions)
    /\ tasks = TaskTable(NumTasks, TaskKinds)

\* the kinds of user of the leaderboard runs, as the tables show them at time
\* 0: two users whose different activity adds up to the same score; one with
\* a task completed a day ago, another now, and one late completion out of
\* two; one without a profile
RankingKinds ==
    << UserRow(0, TRUE, <<0>>, <<XpEntry(0, 10)>>, 1, 1, 0, 0),
       UserRow(0, TRUE, <<0>>, <<XpEntry(0, 15)>>, 0, 0, 0, 0),
       UserRow(0, TRUE, <<0 - QuartersPerDay, 0>>,
               <<XpEntry(0 - QuartersPerDay, 10), XpEntry(0, 20)>>, 2, 0, 1, 1),
       UserRow(0, FALSE, <<0>>, <<>>, 0, 0, 0, 0) >>

\* the kinds of user of the maintenance runs: logged in today with a profile,
\* logged in today without one, and with a profile and a login six days ago
MaintenanceKinds ==
    << UserRow(0, TRUE, <<0>>, <<XpEntry(0, 10)>>, 1, 1, 0, 0),
       UserRow(0, FALSE, <<0>>, <<>>, 0, 0, 0, 0),
       UserRow(0 - 6 * QuartersPerDay, TRUE, <<>>, <<>>, 0, 0, 0, 0) >>

\* created_at of the notifications of the maintenance runs: 31 and 30 days
\* before time 0
NotificationAges == {0 - 31 * QuartersPerDay, 0 - 30 * QuartersPerDay}

\* the leaderboard runs: any users of the ranking kinds, their tasks created
\* in any order
InitRankings ==
    /\ InitEngine
    /\ InitBatch
    /\ achievements = Achievements
    /\ tasks = TaskTable(NumTasks, TaskKinds)
    /\ missions = MissionTable(NumMissions)
    /\ \E kind \in [1..NumUsers -> DOMAIN RankingKinds], place \in Orders(1..NumUsers) :
          users = [u \in 1..NumUsers |-> [RankingKinds[kind[u]] EXCEPT !.place = place[u]]]
    /\ notifications = {}

\* the runs of SpecLeaderboard: user u of ranking kind u (cyclically), the
\* tasks created in the order of the users' ids
InitLeaderboard ==
    /\ InitEngine
    /\ InitBatch
    /\ achievements = Achievements
    /\ tasks = TaskTable(NumTasks, TaskKinds)
    /\ missions = MissionTable(NumMissions)
    /\ users = [u \in 1..NumUsers |->
                  [RankingKinds[((u - 1) % Len(RankingKinds)) + 1] EXCEPT !.place = u]]
    /\ notifications = {}

\* the maintenance runs: any users of the maintenance kinds, their tasks
\* created in the order of their ids, and any notifications (the older rows
\* have the lower ids)
InitMaintenance ==
    /\ InitEngine
    /\ InitBatch
    /\ achievements = Achievements
    /\ tasks = TaskTable(NumTasks, TaskKinds)
    /\ missions = MissionTable(NumMissions)
    /\ \E kind \in [1..NumMaintenanceUsers -> DOMAIN MaintenanceKinds] :
          users = [u \in 1..NumMaintenanceUsers |->
                      [MaintenanceKinds[kind[u]] EXCEPT !.place = u]]
    /\ \E age \in [1..NumNotifications -> NotificationAges] :
          /\ \A n, m \in 1..NumNotifications : n < m => age[n] <= age[m]
          /\ notifications =
                {[id |-> n, created_at |-> age[n]] : n \in 1..NumNotifications}

\* the kinds of task of SpecTiming: an expert one due the moment it was
\* created, and a hard and an easy one due a day after creation
TimingKinds ==
    << <<"expert", "urgent", 0>>,
       <<"hard", "high", QuartersPerDay>>,
       <<"easy", "medium", QuartersPerDay>> >>

InitTiming ==
    /\ InitCommon
    /\ missions = MissionTable(NumMissions)
    /\ tasks = TaskTable(NumTimingTasks, TimingKinds)

\* an achievement on the cached total: 260 XP is more than the largest task
\* earns (250) and less than that task and "First Steps" together (275)
RisingStar ==
    [name |-> "Rising Star", achievement_type |-> "xp", threshold |-> 260,
     xp_reward |-> 50]

\* the Achievement tables of SpecAchievements: the XP achievement created
\* before or after "First Steps", and the table of the other runs
AchievementTables ==
    { <<RisingStar, Achievements[1]>>, <<Achievements[1], RisingStar>>, Achievements }

InitAchievements ==
    /\ InitUser
    /\ achievements \in AchievementTables
    /\ missions = MissionTable(NumMissions)
    /\ tasks = TaskTable(NumTasks, TaskKinds)

\* the tasks of SpecXp: one of every difficulty (and one whose difficulty is
\* none of the choices) in each of five categories, due a day after creation
XpDifficulties == <<"easy", "medium", "hard", "expert", "other">>

\* Category.xp_multiplier of the five categories, in hundredths
Multipliers == <<0, 50, 100, 150, 200>>

XpTaskTable(priority) ==
    [t \in 1..(Len(XpDifficulties) * Len(Multipliers)) |->
        LET d == ((t - 1) \div Len(Multipliers)) + 1
            c == ((t - 1) % Len(Multipliers)) + 1
        IN  [TaskRow(t, XpDifficulties[d], priority, QuartersPerDay)
                EXCEPT !.xp_multiplier = Multipliers[c], !.category = c]]

\* the tasks share one priority, any of the choices or none of them
InitXp ==
    /\ InitCommon
    /\ missions = MissionTable(NumMissions)
    /\ \E priority \in Priorities \cup {"other"} : tasks = XpTaskTable(priority)

InitMission ==
    /\ InitCommon
    /\ tasks = TaskTable(NumTasks, TaskKinds)
    /\ missions = MissionTable(NumMissionsOfMission)

InitStreak ==
    /\ InitCommon
    /\ missions = MissionTable(NumMissions)
    /\ tasks = TaskTable(NumStreakTasks, TaskKinds)

InitHistory ==
    /\ InitCommon
    /\ missions = MissionTable(NumMissions)
    /\ tasks = TaskTable(NumHistoryTasks, << <<"easy", "medium", NoDate>> >>)

----------------------------------------------------------------------------
(* Operations, each a whole request or engine call *)

\* the tables after an engine operation that ended with the store db
Commit(db) ==
    /\ tasks' = db.tasks
    /\ profile' = db.profile
    /\ xplog' = db.xplog
    /\ user_achievements' = db.ua
    /\ saves' = db.saves

\* the clock moves to a later instant
Tick(days, times) ==
    /\ \E t \in {d * QuartersPerDay + q : d \in 0..days, q \in times} :
          t > now /\ now' = t
    /\ UNCHANGED <<tasks, profile, xplog, user_achievements, missions, saves,
                   requests, result, batch>>

\* PATCH /tasks/<tid>/complete/: TaskViewSet.complete and Task.complete_task
CompleteTaskReturns(r) ==
    /\ Commit(r.db)
    /\ result' = Result("complete_task", r.ok, r.xp_earned, r.exc)
    /\ UNCHANGED <<now, missions, requests, batch>>

CompleteTask(tid) == CompleteTaskReturns(complete_task(Store, tasks[tid], now))

\* GamificationEngine(user).award_task_xp(task) on the task read from row tid
AwardTaskXpReturns(r) ==
    /\ Commit(r.db)
    /\ result' = Result("award_task_xp", r.awarded, r.xp_earned, r.exc)
    /\ UNCHANGED <<now, missions, requests, batch>>

AwardTaskXp(tid) ==
    /\ Len(xplog) < MaxLedger
    /\ AwardTaskXpReturns(award_task_xp(Store, profile, tasks[tid], now))

\* GamificationEngine(user).update_streak()
UpdateStreak ==
    LET r == update_streak(Store, profile, Today)
    IN  /\ Commit(r.db)
        /\ result' = Result("update_streak", TRUE, r.streak_bonus, NoExc)
        /\ UNCHANGED <<now, missions, requests, batch>>

\* GamificationEngine(user).recalculate_streak()
RecalculateStreak ==
    LET r == recalculate_streak(Store, profile)
    IN  /\ Commit(r.db)
        /\ result' = Result("recalculate_streak", r.returned, 0, NoExc)
        /\ UNCHANGED <<now, missions, requests, batch>>

\* GamificationEngine(user).check_all_achievements()
CheckAllAchievementsReturns(r) ==
    /\ Commit(r.db)
    /\ result' = Result("check_all_achievements", r.exc = NoExc,
                        Len(r.newly_unlocked), r.exc)
    /\ UNCHANGED <<now, missions, requests, batch>>

CheckAllAchievements ==
    CheckAllAchievementsReturns(check_all_achievements(Store, profile))

\* MissionService.update_mission_progress(user_id, 'daily_goal', progress_value)
UpdateMissionProgressReturns(r) ==
    /\ Commit(r.db)
    /\ missions' = r.ms
    /\ result' = Result("update_mission_progress", r.exc = NoExc,
                        Cardinality(r.completed), r.exc)
    /\ UNCHANGED <<now, requests, batch>>

UpdateMissionProgress(progress_value) ==
    UpdateMissionProgressReturns(
        update_mission_progress(Store, missions, "daily_goal", progress_value))

\* MissionService._award_mission_rewards(user_id, mission) on the mission read
\* from row m
AwardMissionRewardsReturns(r, xp_reward) ==
    /\ Commit(r.db)
    /\ result' = Result("award_mission_rewards", r.exc = NoExc, xp_reward, r.exc)
    /\ UNCHANGED <<now, missions, requests, batch>>

AwardMissionRewards(m) ==
    /\ Len(xplog) < MaxLedger
    /\ AwardMissionRewardsReturns(award_mission_rewards(Store, missions[m]),
                                  missions[m].xp_reward)

\* UserMission.update_progress(increment) on mission m
MissionUpdateProgress(m, increment) ==
    LET r == update_progress(missions, m, increment)
    IN  /\ missions' = r.ms
        /\ result' = Result("update_progress", r.returned, 0, r.exc)
        /\ UNCHANGED <<now, tasks, profile, xplog, user_achievements, saves, requests, batch>>

\* UserMission.complete_mission() on mission m
MissionComplete(m) ==
    LET r == complete_mission(missions, m, missions[m])
    IN  /\ missions' = r.ms
        /\ result' = Result("complete_mission", r.returned, 0, r.exc)
        /\ UNCHANGED <<now, tasks, profile, xplog, user_achievements, saves, requests, batch>>

\* UserMission.fail_mission() on mission m
MissionFail(m) ==
    LET r == fail_mission(missions, notifications, m, now)
    IN  /\ missions' = r.ms
        /\ notifications' = r.ns
        /\ result' = Result("fail_mission", r.returned, 0, NoExc)
        /\ UNCHANGED <<now, tasks, profile, xplog, user_achievements, saves, requests,
                       users, leaderboard, settings, maintenance, weekly_reviews,
                       achievements>>

\* POST /missions/<m>/abandon_mission/
AbandonMission(m) ==
    LET r == abandon_mission(missions, m)
    IN  /\ missions' = r.ms
        /\ result' = Result("abandon_mission", r.response = 200, r.response, NoExc)
        /\ UNCHANGED <<now, tasks, profile, xplog, user_achievements, saves, requests, batch>>

\* LeaderboardService.update_rankings(period)
UpdateRankingsReturns(r) ==
    /\ leaderboard' = r.table
    /\ result' = Result("update_rankings", r.exc = NoExc, 0, r.exc)
    /\ UNCHANGED <<now, tasks, profile, xplog, user_achievements, missions, saves,
                   requests, users, notifications, settings, maintenance, weekly_reviews,
                   achievements>>

UpdateRankings(period) ==
    UpdateRankingsReturns(update_rankings(leaderboard, users, period, now))

\* LeaderboardService.get_leaderboard(leaderboard_type, limit)
GetLeaderboard(leaderboard_type, limit) ==
    /\ \E newest_first \in BOOLEAN :
          result' = Result("get_leaderboard", TRUE,
                           get_leaderboard(leaderboard, leaderboard_type, limit,
                                           newest_first), NoExc)
    /\ UNCHANGED <<now, tasks, profile, xplog, user_achievements, missions, saves,
                   requests, batch>>

\* MissionService.assign_daily_missions(u)
AssignDailyMissionsReturns(r) ==
    /\ result' = Result("assign_daily_missions", r.exc = NoExc,
                        Cardinality(r.missions), r.exc)
    /\ UNCHANGED <<now, tasks, profile, xplog, user_achievements, missions, saves,
                   requests, batch>>

AssignDailyMissions(u) == AssignDailyMissionsReturns(assign_daily_missions(users, u))

\* SystemService.run_daily_maintenance()
RunDailyMaintenanceReturns(r) ==
    /\ leaderboard' = r.sys.leaderboard
    /\ notifications' = r.sys.notifications
    /\ settings' = r.sys.settings
    /\ maintenance' = r.results
    /\ result' = Result("run_daily_maintenance", r.exc = NoExc, 0, r.exc)
    /\ UNCHANGED <<now, tasks, profile, xplog, user_achievements, missions, saves,
                   requests, users, weekly_reviews, achievements>>

RunDailyMaintenance(fail) ==
    RunDailyMaintenanceReturns(run_daily_maintenance(BatchStore, fail, now))

\* GET /tasks/: TaskSerializer.get_xp_value calls engine.calculate_task_xp(obj)
\* for every task of the user
ListTasks ==
    /\ result' =
          IF \E tid \in DOMAIN tasks : TimingRaises(tasks[tid])
          THEN Result("list_tasks", FALSE, <<>>, "ZeroDivisionError")
          ELSE Result("list_tasks", TRUE,
                      [tid \in DOMAIN tasks |-> calculate_task_xp(tasks[tid], now)], NoExc)
    /\ UNCHANGED <<now, tasks, profile, xplog, user_achievements, missions, saves,
                   requests, batch>>

\* profile.calculate_xp_for_level(level); the result names the level asked
CalculateXpForLevel(level) ==
    /\ result' = Result("calculate_xp_for_level", TRUE,
                        <<level, calculate_xp_for_level(level)>>, NoExc)
    /\ UNCHANGED <<now, tasks, profile, xplog, user_achievements, missions, saves,
                   requests, batch>>

\* GamificationEngine(user).generate_weekly_review()
GenerateWeeklyReviewReturns(r) ==
    /\ weekly_reviews' = r.reviews
    /\ result' = Result("generate_weekly_review", r.exc = NoExc, r.score, r.exc)
    /\ UNCHANGED <<now, tasks, profile, xplog, user_achievements, missions, saves,
                   requests, users, leaderboard, notifications, settings, maintenance,
                   achievements>>

GenerateWeeklyReview ==
    GenerateWeeklyReviewReturns(generate_weekly_review(tasks, weekly_reviews, now))

----------------------------------------------------------------------------
(* Specifications *)

\* Spec: the XP-earning operations, streak updates, achievement checks and
\* mission updates of one user, day by day
TickDay == Tick(MaxDay, {0})

Next ==
    \/ TickDay
    \/ \E tid \in DOMAIN tasks : CompleteTask(tid)
    \/ UpdateStreak
    \/ CheckAllAchievements
    \/ \E v \in 1..MaxIncrement : UpdateMissionProgress(v)

Spec == Init /\ [][Next]_vars

\* SpecMission: the operations on the user's missions, through the service,
\* through the model methods and through the view
NextMission ==
    \/ \E v \in 1..MaxIncrement : UpdateMissionProgress(v)
    \/ \E m \in DOMAIN missions, v \in 1..MaxIncrement : MissionUpdateProgress(m, v)
    \/ \E m \in DOMAIN missions : MissionComplete(m)
    \/ \E m \in DOMAIN missions : MissionFail(m)
    \/ \E m \in DOMAIN missions : AbandonMission(m)

SpecMission == InitMission /\ [][NextMission]_vars

\* SpecStreak: the streak operations over enough days for a 7-day streak
TickStreak == Tick(MaxStreakDay, {0})

NextStreak ==
    \/ TickStreak
    \/ UpdateStreak
    \/ RecalculateStreak
    \/ \E tid \in DOMAIN tasks : CompleteTask(tid)

SpecStreak == InitStreak /\ [][NextStreak]_vars

\* SpecHistory: a history of task completions, in date order, the streak
\* updated by each completion only, and recalculate_streak at any point
TickHistory == Tick(MaxHistoryDay, {0})

\* the user completes the open task with the lowest id (the tasks are alike)
CompleteNextTask ==
    \E tid \in DOMAIN tasks :
        /\ ~tasks[tid].is_completed
        /\ \A u \in DOMAIN tasks : u < tid => tasks[u].is_completed
        /\ CompleteTask(tid)

NextHistory ==
    \/ TickHistory
    \/ CompleteNextTask
    \/ RecalculateStreak

SpecHistory == InitHistory /\ [][NextHistory]_vars

\* SpecTiming: completions and direct awards of tasks with due dates, at the
\* start of a day and four hours into it
TickTiming == Tick(MaxTimingDay, {0, 16})

NextTiming ==
    \/ TickTiming
    \/ \E tid \in DOMAIN tasks : CompleteTask(tid)
    \/ \E tid \in DOMAIN tasks : AwardTaskXp(tid)

SpecTiming == InitTiming /\ [][NextTiming]_vars

\* SpecReward: mission rewards between the streak updates and achievement
\* checks of the engine, day by day
NextReward ==
    \/ TickDay
    \/ UpdateStreak
    \/ CheckAllAchievements
    \/ \E tid \in DOMAIN tasks : CompleteTask(tid)
    \/ \E m \in DOMAIN missions : AwardMissionRewards(m)

SpecReward == Init /\ [][NextReward]_vars

\* SpecRankings: the daily leaderboard runs over the tables of several users,
\* day by day
Periods == {"daily"}

NextRankings ==
    \/ TickDay
    \/ \E period \in Periods : UpdateRankings(period)

SpecRankings == InitRankings /\ [][NextRankings]_vars

\* SpecLeaderboard: the daily leaderboard updated at any half day and read
\* with the default limit or one of the size of the user base
TickHalfDay == Tick(MaxDay, {0, QuartersPerDay \div 2})

NextLeaderboard ==
    \/ TickHalfDay
    \/ UpdateRankings("daily")
    \/ \E limit \in {NumUsers, DefaultLimit} : GetLeaderboard("daily", limit)

SpecLeaderboard == InitLeaderboard /\ [][NextLeaderboard]_vars

\* SpecMaintenance: the nightly batch and direct mission assignments, day by
\* day, any one step of the batch refused by the database or none
NextMaintenance ==
    \/ TickDay
    \/ \E u \in DOMAIN users : AssignDailyMissions(u)
    \/ \E fail \in Failures : RunDailyMaintenance(fail)

SpecMaintenance == InitMaintenance /\ [][NextMaintenance]_vars

\* SpecReview: tasks with deadlines completed at any hour, and weekly reviews
\* generated on any day
NextReview ==
    \/ TickTiming
    \/ \E tid \in DOMAIN tasks : CompleteTask(tid)
    \/ GenerateWeeklyReview

SpecReview == InitTiming /\ [][NextReview]_vars

\* SpecAchievements: task completions and achievement checks over any of the
\* achievement tables
NextAchievements ==
    \/ TickDay
    \/ \E tid \in DOMAIN tasks : CompleteTask(tid)
    \/ UpdateStreak
    \/ CheckAllAchievements

SpecAchievements == InitAchievements /\ [][NextAchievements]_vars

\* SpecXp: the XP of every task as the task list shows it at any hour of the
\* days around the deadline, and the XP requirement of any level
TickXp == Tick(MaxTimingDay, {0, 24, 48, 72})

NextXp ==
    \/ TickXp
    \/ ListTasks
    \/ \E level \in 0..MaxLevel : CalculateXpForLevel(level)

SpecXp == InitXp /\ [][NextXp]_vars

----------------------------------------------------------------------------
(* Concurrent completion requests: each request is a thread of the server; its
   queries are its steps.  TaskViewSet.complete reads the task (get_object),
   then Task.complete_task checks the instance it holds, constructs the engine
   (reading the profile row) and saves the task, then award_task_xp runs on
   the instances the request holds.  No step takes a lock or opens a
   transaction. *)

\* get_object(): the request reads the task row into its own instance
RequestGetObject(r, tid) ==
    /\ requests[r].pc = "idle"
    /\ requests' = [requests EXCEPT ![r].pc = "loaded", ![r].task = tasks[tid]]
    /\ UNCHANGED <<now, tasks, profile, xplog, user_achievements, missions, saves, result,
                   batch>>

\* the is_completed checks of the view and of complete_task, the engine's
\* construction, can_complete_task and task.save()
RequestSaveTask(r) ==
    /\ requests[r].pc = "loaded"
    /\ LET task == requests[r].task
       IN  IF task.is_completed
           THEN /\ requests' = [requests EXCEPT ![r].pc = "done",
                                   ![r].response = "Task is already completed"]
                /\ UNCHANGED tasks
           ELSE IF ~can_complete_task(task, now)
           THEN /\ requests' = [requests EXCEPT ![r].pc = "done",
                                   ![r].response = "Task created too recently"]
                /\ UNCHANGED tasks
           ELSE LET task1 == [task EXCEPT !.is_completed = TRUE, !.completed_at = now]
                IN  /\ tasks' = [tasks EXCEPT ![task.id] = task1]
                    /\ requests' = [requests EXCEPT ![r].pc = "saved",
                                       ![r].task = task1, ![r].p = profile]
    /\ UNCHANGED <<now, profile, xplog, user_achievements, missions, saves, result, batch>>

RequestAwardReturns(r, a) ==
    /\ Commit(a.db)
    /\ requests' = [requests EXCEPT ![r].pc = "done", ![r].p = a.p,
           ![r].response = IF a.exc = NoExc THEN "Task completed!" ELSE a.exc]
    /\ result' = Result("complete_task", a.exc = NoExc, a.xp_earned, a.exc)
    /\ UNCHANGED <<now, missions, batch>>

\* engine.award_task_xp(self) and the response
RequestAward(r) ==
    /\ requests[r].pc = "saved"
    /\ RequestAwardReturns(r, award_task_xp(Store, requests[r].p, requests[r].task, now))

NextConcurrent ==
    \/ TickDay
    \/ \E r \in DOMAIN requests, tid \in DOMAIN tasks : RequestGetObject(r, tid)
    \/ \E r \in DOMAIN requests : RequestSaveTask(r)
    \/ \E r \in DOMAIN requests : RequestAward(r)

SpecConcurrent == Init /\ [][NextConcurrent]_vars

----------------------------------------------------------------------------
(* Properties *)

RECURSIVE SumXp(_)
\* the sum of xp_earned over the entries of a ledger
SumXp(log) == IF log = <<>> THEN 0 ELSE log[1].xp_earned + SumXp(Tail(log))

\* C1: the sum of xp_earned over the user's XPLog entries equals the cached
\* ProgressProfile.total_xp of the user, in every state between operations.
C1_LedgerEqualsTotalXp == SumXp(xplog) = profile.total_xp

\* the XPLog entries of kind action that point at task tid
TaskEntries(action, tid) ==
    {i \in DOMAIN xplog : xplog[i].action = action /\ xplog[i].task = tid}

\* C2: however completion requests for one task interleave, the task is
\* awarded at most once: the ledger holds at most one task_complete entry for it.
C2_TaskAwardedAtMostOnce ==
    \A tid \in DOMAIN tasks : Cardinality(TaskEntries("task_complete", tid)) <= 1

\* the UserAchievement rows, and the 'achievement' ledger entries, of achievement a
UnlockRows(a) == {i \in DOMAIN user_achievements : user_achievements[i].achievement = a}
UnlockEntries(a) ==
    {i \in DOMAIN xplog : /\ xplog[i].action = "achievement"
                          /\ xplog[i].description = achievements[a].name}

\* C3: each achievement is unlocked at most once for the user: at most one
\* UserAchievement row and at most one 'achievement' ledger entry (so its reward
\* is added at most once), however often its condition is evaluated as met.
C3_AchievementUnlockedOnce ==
    \A a \in AchievementIds :
        /\ Cardinality(UnlockRows(a)) <= 1
        /\ Cardinality(UnlockEntries(a)) <= 1

\* C3 witness: the achievements were evaluated again after an unlock, the
\* condition of the unlocked one still met, and nothing was unlocked again
C3_Witness ==
    /\ result.op = "check_all_achievements"
    /\ result.value = 0
    /\ \E a \in AchievementIds :
          /\ UnlockRows(a) # {}
          /\ get_achievement_progress(Store, profile, a) >= achievements[a].threshold

\* the largest level L with total_xp >= calculate_xp_for_level(L); level
\* total_xp \div 100 + 2 already asks for more than total_xp
LargestLevel(total_xp) ==
    CHOOSE L \in 1..(total_xp \div 100 + 2) :
        /\ total_xp >= calculate_xp_for_level(L)
        /\ \A M \in (L + 1)..(total_xp \div 100 + 2) :
              total_xp < calculate_xp_for_level(M)

C5_TotalXpNeverDecreases ==
    \A i \in 1..(Len(saves) - 1) : saves[i] <= saves[i + 1]

\* an update_streak call ran earlier on the current calendar day: directly, or
\* inside the award_task_xp of a completed task
StreakUpdatedToday ==
    /\ result.day = Today
    /\ \/ result.op = "update_streak"
       \/ result.op = "complete_task" /\ result.ok

\* C6: update_streak is idempotent per calendar day: a call on the same day as
\* a previous call returns 0, creates no ledger entry and leaves current_streak,
\* longest_streak and last_activity_date unchanged.
C6_UpdateStreakIdempotentPerDay ==
    [][(StreakUpdatedToday /\ UpdateStreak) =>
          /\ result'.value = 0
          /\ xplog' = xplog
          /\ profile'.current_streak = profile.current_streak
          /\ profile'.longest_streak = profile.longest_streak
          /\ profile'.last_activity_date = profile.last_activity_date]_vars

\* C6 witness: update_streak was called on a day on which a task completion had
\* already updated a streak of two days or more
C6_Witness ==
    /\ result.op = "update_streak"
    /\ result.day = Today
    /\ profile.current_streak >= 2
    /\ \E t \in DOMAIN tasks :
          tasks[t].is_completed /\ Date(tasks[t].completed_at) = Today

\* C7: when update_streak moves current_streak to a positive multiple of 7 it
\* returns current_streak * 5 and appends exactly one streak_bonus entry of that
\* amount; in every other case it returns 0 and appends no entry.
C7_StreakBonusOnSeventhDay ==
    [][UpdateStreak =>
          IF /\ profile'.current_streak # profile.current_streak
             /\ profile'.current_streak > 0
             /\ profile'.current_streak % 7 = 0
          THEN /\ result'.value = profile'.current_streak * 5
               /\ xplog' = Append(xplog, XPLogRow("streak_bonus",
                                      profile'.current_streak * 5, NoTask, ""))
          ELSE /\ result'.value = 0
               /\ xplog' = xplog]_vars

\* C7 witness: update_streak has just moved the streak to 7 and returned 35
C7_Witness ==
    /\ result.op = "update_streak"
    /\ result.value = 35
    /\ profile.current_streak = 7
    /\ xplog # <<>>
    /\ xplog[Len(xplog)].action = "streak_bonus"

\* C8: after every update_streak and recalculate_streak call (and so in every
\* state), longest_streak >= current_streak.
C8_LongestAtLeastCurrent == profile.longest_streak >= profile.current_streak

\* C8 witness: a streak call has left a current streak below the longest one
C8_Witness ==
    /\ result.op \in {"update_streak", "recalculate_streak"}
    /\ profile.current_streak >= 1
    /\ profile.longest_streak > profile.current_streak

\* C9: for a history of completions made in date order, each updating the
\* streak incrementally, recalculate_streak computes the current_streak,
\* longest_streak and last_activity_date the incremental updates have left.
C9_RecalculateMatchesIncremental ==
    [][RecalculateStreak =>
          /\ profile'.current_streak = profile.current_streak
          /\ profile'.longest_streak = profile.longest_streak
          /\ profile'.last_activity_date = profile.last_activity_date]_vars

\* C9 witness: the history [3 days][gap][1 day] recalculated: current 1, longest 3
C9_Witness ==
    /\ result.op = "recalculate_streak"
    /\ CompletionDates(Store) = {0, 1, 2, 4}
    /\ profile.current_streak = 1
    /\ profile.longest_streak = 3
    /\ profile.last_activity_date = 4

\* C10: current_progress never exceeds target_value, whether progress is added
\* by MissionService.update_mission_progress or by UserMission.update_progress.
C10_ProgressWithinTarget ==
    \A m \in DOMAIN missions : missions[m].current_progress <= missions[m].target_value


\* the active missions a call of update_mission_progress with progress_value
\* brings to their target
ReachTarget(progress_value) ==
    {m \in DOMAIN missions :
        /\ missions[m].status = "active"
        /\ missions[m].current_progress + progress_value >= missions[m].target_value}

\* the ledger entries of kind action
EntriesOf(log, action) == {i \in DOMAIN log : log[i].action = action}

\* C11: a mission becomes completed in exactly the update_mission_progress call
\* in which its progress first reaches its target: the call returns normally,
\* returns exactly the missions it brought to their target, completes them and
\* no others, and logs one mission_complete entry for each of them.
C11_MissionCompletedWhenTargetReached ==
    [][\A v \in 1..MaxIncrement :
          UpdateMissionProgress(v) =>
              /\ result'.exc = NoExc
              /\ result'.value = Cardinality(ReachTarget(v))
              /\ \A m \in DOMAIN missions :
                    missions'[m].status = "completed"
                        <=> (m \in ReachTarget(v) \/ missions[m].status = "completed")
              /\ Cardinality(EntriesOf(xplog', "mission_complete"))
                    = Cardinality(EntriesOf(xplog, "mission_complete"))
                        + Cardinality(ReachTarget(v))]_vars


TerminalStatuses == {"completed", "failed", "abandoned"}

C13_AssignDailyMissionsIdempotent ==
    [][\A u \in DOMAIN users :
          AssignDailyMissions(u) =>
              /\ result'.exc = NoExc
              /\ assign_daily_missions(users', u).exc = NoExc
              /\ Cardinality(assign_daily_missions(users', u).missions) = result'.value
              /\ missions' = missions]_vars


\* C14: for every task, with or without a due date, can_complete_task is false
\* while the time since creation is less than the minimum dwell time of the
\* task's difficulty, and true from then on.
C14_DwellTimeForEveryTask ==
    \A tid \in DOMAIN tasks :
        can_complete_task(tasks[tid], now)
            <=> now - tasks[tid].created_at >= MinTime(tasks[tid].difficulty)


\* the rows a task completion writes are as they were
NoEffect == UNCHANGED <<tasks, profile, xplog, user_achievements>>

\* C15: a rejection has no effect on state: when complete_task rejects (the
\* task is already completed, or its dwell time has not elapsed) or
\* award_task_xp rejects (dwell time), the call returns a failure without
\* raising, and the task, the profile and the ledger are unchanged.
C15_RejectionHasNoEffect ==
    [][\A tid \in DOMAIN tasks :
          /\ (/\ CompleteTask(tid)
              /\ tasks[tid].is_completed \/ ~can_complete_task(tasks[tid], now))
                => (~result'.ok /\ result'.exc = NoExc /\ result'.value = 0 /\ NoEffect)
          /\ (AwardTaskXp(tid) /\ ~can_complete_task(tasks[tid], now))
                => (~result'.ok /\ result'.exc = NoExc /\ result'.value = 0 /\ NoEffect)
      ]_vars

\* an award was just rejected although the user has earned XP and holds a
\* streak, and some task is still within its dwell time
C15_Witness ==
    /\ result.op = "award_task_xp"
    /\ ~result.ok
    /\ result.exc = NoExc
    /\ profile.total_xp > 0
    /\ profile.current_streak > 0
    /\ \E tid \in DOMAIN tasks : ~can_complete_task(tasks[tid], now)

\* C16: for a task whose due_date equals its created_at, award_task_xp (through
\* calculate_task_xp and get_timing_modifier) raises no arithmetic error and
\* grants at least the XP of the neutral modifier 1.0, that of the same task
\* without a deadline.
C16_DueAtCreationIsNeutral ==
    [][\A tid \in DOMAIN tasks :
          (/\ AwardTaskXp(tid)
           /\ tasks[tid].due_date = tasks[tid].created_at
           /\ can_complete_task(tasks[tid], now))
            => /\ result'.exc = NoExc
               /\ result'.value >= calculate_task_xp([tasks[tid] EXCEPT !.due_date = NoDate], now)
      ]_vars


\* achievement a is met but locked in the tables after the step
MetButLockedAfter(a) ==
    LET after == [tasks |-> tasks', profile |-> profile', xplog |-> xplog',
                  ua |-> user_achievements', saves |-> saves']
    IN  /\ get_achievement_progress(after, profile', a) >= achievements[a].threshold
        /\ ~UserAchievementExists(after, a)

\* C17: the achievement evaluation runs after a mission reward: when the
\* reward of a completed mission has been added to total_xp, every achievement
\* of any type whose progress meets its threshold is unlocked before the call
\* returns.
C17_AchievementsEvaluatedAfterMissionReward ==
    [][\A m \in DOMAIN missions :
          AwardMissionRewards(m) => \A a \in AchievementIds : ~MetButLockedAfter(a)]_vars


\* C18: in run_daily_maintenance each user is processed independently: when
\* assign_daily_missions raises for an active user (no query being refused by
\* the database), the old notifications are still purged and counted, and
\* the failure is only collected in the result.
C18_BatchSurvivesOneUser ==
    [][RunDailyMaintenance("none") =>
          /\ OldNotifications(notifications', now) = {}
          /\ maintenance'.notifications_cleaned
                = Cardinality(OldNotifications(notifications, now))]_vars

\* the users run_daily_maintenance assigns missions to at time t
LoggedInLately(t) ==
    {u \in DOMAIN users : users[u].last_login >= t - 7 * QuartersPerDay}

\* C19: run_daily_maintenance never propagates an exception: whatever step
\* raises, it returns a result whose error names the exception and whose
\* counters report the work finished before the failure: leaderboards_updated
\* is false and no entry is written when update_rankings raised,
\* notifications_cleaned is the number of rows deleted, no mission is counted
\* that was not created, and last_maintenance_run is recorded only by a run
\* without error.
C19_MaintenanceCollectsTheError ==
    [][\A fail \in Failures :
              RunDailyMaintenance(fail) =>
                  /\ result'.exc = NoExc
                  /\ maintenance'.leaderboards_updated <=> fail # "update_rankings"
                  /\ fail = "update_rankings" =>
                        /\ maintenance'.error = "OperationalError"
                        /\ leaderboard' = leaderboard
                        /\ notifications' = notifications
                  /\ (/\ fail # "update_rankings"
                      /\ \E u \in LoggedInLately(now) : users[u].has_profile)
                        => /\ maintenance'.error = "FieldError"
                           /\ notifications' = notifications
                  /\ maintenance'.notifications_cleaned
                        = Cardinality(notifications \ notifications')
                  /\ maintenance'.missions_assigned = 0
                  /\ missions' = missions
                  /\ IF maintenance'.error = NoExc
                     THEN /\ fail = "none"
                          /\ settings'.last_maintenance_run = now
                          /\ OldNotifications(notifications', now) = {}
                     ELSE settings' = settings]_vars

\* a run has just returned an error after it wrote the leaderboard: old
\* notifications are left and the run is not recorded
C19_Witness ==
    /\ result.op = "run_daily_maintenance"
    /\ result.exc = NoExc
    /\ maintenance.error = "FieldError"
    /\ maintenance.leaderboards_updated
    /\ leaderboard # <<>>
    /\ OldNotifications(notifications, now) # {}
    /\ settings.last_maintenance_run = NoDate

C21_PerformanceScoreWithinRange ==
    \A r \in weekly_reviews : r.performance_score \in 0..100

\* the tables of the XP formula as the documentation gives them
DocumentedBase(difficulty) ==
    CASE difficulty = "easy" -> 10
      [] difficulty = "medium" -> 20
      [] difficulty = "hard" -> 40
      [] difficulty = "expert" -> 100
      [] OTHER -> 25

\* in hundredths
DocumentedPriority(priority) ==
    CASE priority = "low" -> 100
      [] priority = "medium" -> 110
      [] priority = "high" -> 125
      [] priority = "urgent" -> 250
      [] OTHER -> 100

\* the XP of task tid by the documented formula, truncated after each step
DocumentedXp(tid) ==
    Max(1, IntMul(IntMul(IntMul(DocumentedBase(tasks[tid].difficulty),
                                tasks[tid].xp_multiplier),
                         DocumentedPriority(tasks[tid].priority)),
                  get_timing_modifier(tasks[tid], now)))

C23_SingleTruncation ==
    [][ListTasks =>
         \A tid \in DOMAIN tasks :
            (/\ tasks[tid].xp_multiplier = 150
             /\ tasks[tid].difficulty \in Difficulties
             /\ tasks[tid].priority \in Priorities
             /\ get_timing_modifier(tasks[tid], now) = 130)
            => result'.value[tid] =
                  (DocumentedBase(tasks[tid].difficulty) * 150
                     * DocumentedPriority(tasks[tid].priority) * 130) \div 1000000]_vars

\* position of a difficulty in the order easy < medium < hard < expert
DifficultyRank(difficulty) ==
    CASE difficulty = "easy" -> 1
      [] difficulty = "medium" -> 2
      [] difficulty = "hard" -> 3
      [] difficulty = "expert" -> 4

\* tasks a and b of one category (and so one priority and one deadline), a of
\* the lower difficulty
LowerDifficulty(a, b) ==
    /\ tasks[a].category = tasks[b].category
    /\ tasks[a].difficulty \in Difficulties
    /\ tasks[b].difficulty \in Difficulties
    /\ DifficultyRank(tasks[a].difficulty) < DifficultyRank(tasks[b].difficulty)

\* C24 as stated: for every category multiplier >= 0, priority and timing
\* modifier, the XP is strictly larger for the higher difficulty
C24_StrictlyMonotonicForEveryMultiplier ==
    [][ListTasks =>
         \A a, b \in DOMAIN tasks :
            LowerDifficulty(a, b) => result'.value[a] < result'.value[b]]_vars

\* C24: for every category multiplier >= 0, priority and timing modifier the
\* XP never decreases with the difficulty, and it is strictly larger for the
\* higher difficulty when the category multiplier is at least 0.5
C24_MonotonicInDifficulty ==
    [][ListTasks =>
         \A a, b \in DOMAIN tasks :
            LowerDifficulty(a, b) =>
               /\ result'.value[a] <= result'.value[b]
               /\ tasks[a].xp_multiplier >= 50 => result'.value[a] < result'.value[b]]_vars

\* the list shows the easy and the expert task of the 0.0 category both at
\* the floor of 1, and the easy task of the 0.5 category below the medium one
C24_Witness ==
    /\ result.op = "list_tasks"
    /\ result.ok
    /\ \E a, b \in DOMAIN tasks :
          /\ LowerDifficulty(a, b)
          /\ tasks[a].xp_multiplier = 0
          /\ tasks[a].difficulty = "easy" /\ tasks[b].difficulty = "expert"
          /\ result.value[a] = 1 /\ result.value[b] = 1
    /\ \E a, b \in DOMAIN tasks :
          /\ LowerDifficulty(a, b)
          /\ tasks[a].xp_multiplier = 50
          /\ tasks[a].difficulty = "easy" /\ tasks[b].difficulty = "medium"
          /\ result.value[a] < result.value[b]

\* task a is task b in the category of multiplier 2.0 instead of 1.0
DoubledCategory(a, b) ==
    /\ tasks[a].difficulty = tasks[b].difficulty
    /\ tasks[a].xp_multiplier = 200
    /\ tasks[b].xp_multiplier = 100

\* C25 as stated: the XP in a category of multiplier 2.0 is exactly twice the
\* XP of the same task in a category of multiplier 1.0
C25_ExactlyDouble ==
    [][ListTasks =>
         \A a, b \in DOMAIN tasks :
            DoubledCategory(a, b) => result'.value[a] = 2 * result'.value[b]]_vars

\* C25: the XP in a category of multiplier 2.0 is at least twice the XP of
\* the same task in a category of multiplier 1.0 and exceeds it by at most 2
\* (what the truncations of the smaller value lose)
C25_DoubleUpToTruncation ==
    [][ListTasks =>
         \A a, b \in DOMAIN tasks :
            DoubledCategory(a, b) =>
               /\ result'.value[a] >= 2 * result'.value[b]
               /\ result'.value[a] <= 2 * result'.value[b] + 2]_vars

\* the list shows a high-priority easy task at 32 XP in the 2.0 category and
\* at 15 XP in the 1.0 category (early modifier 1.3)
C25_Witness ==
    /\ result.op = "list_tasks"
    /\ result.ok
    /\ \E a, b \in DOMAIN tasks :
          /\ DoubledCategory(a, b)
          /\ tasks[a].difficulty = "easy"
          /\ tasks[a].priority = "high"
          /\ result.value[a] = 32
          /\ result.value[b] = 15

\* the last call asked for the requirement of this level and got this answer
LevelRequires(level, xp) ==
    (result.op = "calculate_xp_for_level" /\ result.value[1] = level)
        => result.value[2] = xp

RECURSIVE SumRewards(_)
\* the sum of xp_reward over a set of achievements
SumRewards(S) ==
    IF S = {} THEN 0
    ELSE LET a == CHOOSE x \in S : TRUE
         IN  achievements[a].xp_reward + SumRewards(S \ {a})

\* the achievements that hold a UserAchievement row in the table ua
UnlockedIn(ua) == {ua[i].achievement : i \in DOMAIN ua}

\* C27: one successful award_task_xp accounts for all the XP it hands out:
\* when it returns xp_earned > 0, the persisted total_xp is the total_xp
\* persisted before the call plus xp_earned plus the rewards of the
\* achievements unlocked during the call
C27_AwardAccountsForAllXp ==
    [][\A tid \in DOMAIN tasks :
          (CompleteTask(tid) /\ result'.ok /\ result'.value > 0)
          => profile'.total_xp =
                profile.total_xp + result'.value
                + SumRewards(UnlockedIn(user_achievements')
                                \ UnlockedIn(user_achievements))]_vars

\* C28: check_all_achievements reaches a fixed point: when it returns (called
\* directly, or as the last step of a successful award), no achievement is
\* locked while its progress meets its threshold, also when the reward of an
\* achievement unlocked in the same call brought it there
C28_CheckAllReachesFixedPoint ==
    [][(\/ CheckAllAchievements
        \/ \E tid \in DOMAIN tasks : CompleteTask(tid) /\ result'.ok)
       => \A a \in AchievementIds : ~MetButLockedAfter(a)]_vars

\* C29: after any number of update_rankings runs for the same period at
\* different times, get_leaderboard for the type returns at most one entry
\* per user and no two returned entries share a rank
C29_OneEntryPerUserAndRank ==
    result.op = "get_leaderboard" =>
        \A i, j \in DOMAIN result.value :
            i # j => /\ result.value[i].user_id # result.value[j].user_id
                     /\ result.value[i].rank # result.value[j].rank

\* the call wrote a task_complete entry for task tid and the cached total
\* grew by at least its XP
AwardedInStep(tid) ==
    \E i \in (Len(xplog) + 1)..Len(xplog') :
        /\ xplog'[i].action = "task_complete"
        /\ xplog'[i].task = tid
        /\ profile'.total_xp >= profile.total_xp + xplog'[i].xp_earned

\* C30: task completion is atomic: a complete_task call on an open task
\* leaves it completed if and only if it wrote the task_complete entry and
\* added the XP; an award that fails after the task was saved does not leave
\* the task completed without XP
C30_CompletionIsAtomic ==
    [][\A tid \in DOMAIN tasks :
          (CompleteTask(tid) /\ ~tasks[tid].is_completed)
          => (tasks'[tid].is_completed <=> AwardedInStep(tid))]_vars

====
